---- MODULE Spec2Model ----
(***************************************************************************)
(* DescartesRailedSampler<FloatType> (descartes_railed_sampler.hpp).       *)
(*                                                                         *)
(* Scalars (rail positions, joint values) are exact fixed-point numbers:   *)
(* the integer x stands for the real x / Scale, so that every value        *)
(* Eigen's LinSpaced produces for the modelled limits is represented       *)
(* exactly.  Clearance distances are integers in units of                  *)
(* std::numeric_limits<double>::min(), the smallest positive normal        *)
(* double: the distance 1 is that value, 0 is contact, negative values     *)
(* are penetration.                                                        *)
(*                                                                         *)
(* The collaborators (forward and inverse kinematics, validity predicate,  *)
(* collision interface) are deterministic functions that are not known in  *)
(* advance: the variable world remembers every answer given so far, and a  *)
(* query that was never asked before may be answered with any value of its *)
(* range.                                                                  *)
(***************************************************************************)
EXTENDS Integers, Sequences, FiniteSets, TLC

\* ------------------------------------------------------------------ bounds
\* Rail DOF of the search specification, at most.
MaxRailDOF == 2
\* Rail limits of the search specification are drawn from 0..MaxLimit.
MaxLimit == 2
\* Rail sample resolutions are drawn from 1..MaxRes.
MaxRes == 1
\* Tool-pose candidates returned by the tool pose sampler, at most.
MaxPoses == 2
\* ikAt calls of one pass (candidates x grid points) of a sampler that does
\* not tolerate collisions, at most.
MaxPoints == 4
\* ikAt calls of one pass of a sampler that tolerates collisions, at most.
MaxFallbackPoints == 2
\* Branches one calcInvKin call returns, at most.
MaxBranches == 2
\* Clearance distances answered by the collision interface lie between
\* -MaxDist and std::numeric_limits<double>::min() + MaxDist.
MaxDist == 2
\* Joints of the robot (robot_kinematics_->numJoints()).
RobotDOF == 1
\* The configured reach (robot_reach_), in fixed-point units.
RobotReach == 1
\* Rail limits of the grid specification are drawn from 0..GridMaxLimit.
GridMaxLimit == 4
\* Resolutions of the grid specification are drawn from 1..GridMaxRes.
GridMaxRes == 3
\* Rail limits of the configuration specification are drawn from
\* 0..ConfigMaxLimit, inverted pairs included.
ConfigMaxLimit == 2
\* Invocations of sample() on one sampler in the repetition specification.
MaxInvocations == 2
\* Resolutions of the configuration specification are drawn from
\* -MaxNegRes..MaxRes: negative ones and zero included.
MaxNegRes == 1

\* ------------------------------------------------------------- arithmetic
Abs(x) == IF x < 0 THEN -x ELSE x

Max(a, b) == IF a >= b THEN a ELSE b

\* std::ceil(a / b) for a >= 0 and b > 0.
CeilDiv(a, b) == (a + b - 1) \div b

RECURSIVE Gcd(_, _)
Gcd(a, b) == IF b = 0 THEN a ELSE Gcd(b, a % b)

RECURSIVE LcmUpTo(_)
LcmUpTo(n) == IF n <= 1 THEN 1 ELSE (LcmUpTo(n - 1) * n) \div Gcd(LcmUpTo(n - 1), n)

\* One real unit in fixed-point units: every step (hi - lo) / (cnt - 1) of a
\* grid over the modelled limits is a whole number of fixed-point units.
Scale == LcmUpTo(Max(MaxLimit, GridMaxLimit))

\* double distance = std::numeric_limits<double>::min();
NumericLimitsMin == 1

\* Content of a freshly allocated, not yet assigned Eigen vector element.
Uninitialized == -1

\* A value left in the caller's vector before sample() is entered.
Stale == -2

\* --------------------------------------------------------- Rail Grid Builder
\* Mutant: the quotient is truncated by the conversion to int, not rounded up.
GridCount_Truncated(lo, hi, res) == Abs(hi - lo) \div res

\* int cnt = std::ceil(std::abs(limits(dof, 1) - limits(dof, 0)) / resolution(dof));
GridCount(lo, hi, res) == CeilDiv(Abs(hi - lo), res)

\* Eigen::VectorXd::LinSpaced(size, low, high): size evenly spaced values from
\* low to high; for size = 1 the vector holds high alone; size = 0 is empty.
\* When |high| < |low| Eigen counts down from high instead of up from low.
LinSpaced(size, low, high) ==
    IF size = 0 THEN << >>
    ELSE IF size = 1 THEN << high >>
    ELSE LET step == (high - low) \div (size - 1)
             flip == Abs(high) < Abs(low)
         IN [n \in 1..size |->
                IF flip
                THEN (IF n = 1 THEN low ELSE high - (size - n) * step)
                ELSE (IF n = size THEN high ELSE low + (n - 1) * step)]

\* The body of the loop over the rail DOF: one grid per DOF.
DofRange(limits, resolution) ==
    [d \in DOMAIN limits |->
        LinSpaced(GridCount(limits[d][1], limits[d][2], resolution[d]),
                  limits[d][1] * Scale, limits[d][2] * Scale)]

\* std::numeric_limits<int>::max()
IntMax == 2147483647

\* The values the conversion of an infinity or a NaN to int yields (undefined
\* behaviour): the lowest int where the conversion instruction answers with
\* the "integer indefinite" value, 0 or the highest int where it saturates.
UndefinedCounts == {0 - IntMax - 1, 0, IntMax}

\* The values of cnt for any resolution. A negative resolution makes the
\* quotient negative or -0.0, and std::ceil rounds it towards zero; a zero
\* resolution makes it an infinity or a NaN, whose conversion to int is
\* undefined.
Counts(lo, hi, res) ==
    IF res > 0 THEN {GridCount(lo, hi, res)}
    ELSE IF res < 0 THEN {0 - (Abs(hi - lo) \div (0 - res))}
    ELSE UndefinedCounts

\* The per-DOF values of cnt the loop over the rail DOF can see.
CountChoices(limits, resolution) ==
    LET counts(d) == Counts(limits[d][1], limits[d][2], resolution[d])
    IN { cnt \in [DOMAIN limits -> UNION {counts(d) : d \in DOMAIN limits}] :
           \A d \in DOMAIN limits : cnt[d] \in counts(d) }

\* LinSpaced with a negative size trips an Eigen assertion where assertions
\* are compiled in; where they are not, the vector has no element to iterate.
NegativeSize(cnt) == \E d \in DOMAIN cnt : cnt[d] < 0

\* LinSpaced with IntMax elements: the allocation throws std::bad_alloc.
ExcessiveSize(cnt) == \E d \in DOMAIN cnt : cnt[d] = IntMax

\* Whether the construction of the grid ends the program: the outcomes.
Aborts(cnt) ==
    IF ExcessiveSize(cnt) THEN {TRUE}
    ELSE IF NegativeSize(cnt) THEN BOOLEAN
    ELSE {FALSE}

\* dof_range for the counts cnt.
DofRangeOf(limits, cnt) ==
    [d \in DOMAIN limits |->
        LinSpaced(Max(cnt[d], 0), limits[d][1] * Scale, limits[d][2] * Scale)]


\* ------------------------------------------------------------------ state
VARIABLES
    \* configuration, fixed by the constructor
    num_joints,                 \* railed_kinematics_->numJoints()
    railed_limits,              \* railed_limits_: per DOF <<low, high>>
    railed_sample_resolution,   \* railed_sample_resolution_
    num_poses,                  \* tool_pose_sampler_(tool_pose_).size()
    collision,                  \* collision_ != nullptr
    allow_collision,            \* allow_collision_
    \* sample()
    pc,                         \* "idle", "collect", "best", "done", "crashed"
    dof_range,                  \* the rail grid
    k,                          \* ikAt calls made so far in the current pass
    i,                          \* index of the tool pose of the last ikAt call
    railed_pose,                \* the rail sample point, assigned in place
    solution_set,               \* the caller's vector
    distance,                   \* sample()'s local distance
    best_distance,              \* getBestSolution()'s local distance
    ret,                        \* the value sample() returned
    \* the collaborators' answers so far
    world,
    \* history
    entry_set,                  \* solution_set as sample() received it
    log,                        \* the collaborator calls of this invocation
    \* the caller
    invocation,                 \* the number of the running invocation
    first_ret,                  \* what the first invocation returned
    first_set                   \* solution_set as the first invocation left it

config == << num_joints, railed_limits, railed_sample_resolution, num_poses,
             collision, allow_collision >>

caller == << invocation, first_ret, first_set >>

vars == << num_joints, railed_limits, railed_sample_resolution, num_poses,
           collision, allow_collision, pc, dof_range, k, i, railed_pose,
           solution_set, distance, best_distance, ret, world, entry_set, log,
           invocation, first_ret, first_set >>

\* dof_ = railed_kinematics_->numJoints() + robot_kinematics_->numJoints()
dof == num_joints + RobotDOF

\* robot_reach_
robot_reach == RobotReach

\* ---------------------------------------------------------- collaborators
EmptyFn == [x \in {} |-> FALSE]

\* The answers a deterministic collaborator may give to a query: the one it
\* gave before, or any value of its range when asked for the first time.
Ask(f, key, range) == IF key \in DOMAIN f THEN {f[key]} ELSE range

Learn(f, key, val) == IF key \in DOMAIN f THEN f ELSE f @@ (key :> val)

\* translation().norm() of the robot-frame pose: at the reach, or beyond it.
Norms == {RobotReach, RobotReach + 1}

\* calcInvKin: -1 is failure, n >= 0 is success with n branches.
InvKinResults == -1..MaxBranches

\* collision_->distance(): penetrating, touching, clear.
Dists == (0 - MaxDist)..(NumericLimitsMin + MaxDist)

\* The packed branches of a successful calcInvKin with n branches.
RobotSolutionSet(n) == [m \in 1..(n * RobotDOF) |-> m * Scale]

Call(fn, get_best_solution, p, rail, sol) ==
    [fn |-> fn, best |-> get_best_solution, pose |-> p, rail |-> rail, sol |-> sol]

\* ------------------------------------------------------------------- ikAt
\* Mutant: the reach pre-filter is missing.
ExceedsReach_Never(norm) == FALSE

\* robot_tool_pose.translation().norm() > robot_reach_
ExceedsReach(norm) == norm > robot_reach

\* long num_sols = robot_solution_set.size() / robot_dof;
NumSols(robot_solution_set) == Len(robot_solution_set) \div RobotDOF

\* Mutant: the rail sample point is left out of the solution.
FullSol_BranchOnly(rail, robot_solution_set, n) ==
    SubSeq(robot_solution_set, RobotDOF * (n - 1) + 1, RobotDOF * n)

\* full_sol: the rail sample point followed by branch n.
FullSol(rail, robot_solution_set, n) ==
    rail \o SubSeq(robot_solution_set, RobotDOF * (n - 1) + 1, RobotDOF * n)

\* Mutant: the answer of the collision interface is ignored.
isCollisionFree_AlwaysFree(validated) == TRUE

\* Mutant: without a collision interface nothing is collision-free.
isCollisionFree_NullRejects(validated) == IF ~collision THEN FALSE ELSE validated

\* isCollisionFree: validated is the answer of collision_->validate.
isCollisionFree(validated) == IF ~collision THEN TRUE ELSE validated

\* Mutant: the solution is assigned to the vector, not appended.
InsertEnd_Overwrite(set, full_sol) == full_sol

\* solution_set.insert(end(solution_set), full_sol.begin(), full_sol.end())
InsertEnd(set, full_sol) == set \o full_sol

\* Mutant: a new best is appended at the end, not inserted at the front.
InsertBegin_AtEnd(set, full_sol) == set \o full_sol

\* solution_set.insert(begin(solution_set), full_sol.begin(), full_sol.end())
InsertBegin(set, full_sol) == full_sol \o set

\* Mutant: a configuration that ties the best so far is taken as well.
Improves_OrEqual(cur_distance, dist) == cur_distance >= dist

\* if (cur_distance > distance)
Improves(cur_distance, dist) == cur_distance > dist

\* The working state ikAt reads and writes: st.distance is the distance
\* passed by reference, whichever local it is.
\* if (!get_best_solution) { if (isCollisionFree(...)) insert at the end }
CollectBranch(p, full_sol, st) ==
    { LET s1 == IF collision
                THEN [st EXCEPT !.world.validate = Learn(@, full_sol, c),
                                !.log = Append(@, Call("validate", FALSE, p, << >>, full_sol))]
                ELSE st
      IN IF isCollisionFree(c)
         THEN [s1 EXCEPT !.solution_set = InsertEnd(@, full_sol)]
         ELSE s1
      : c \in IF collision THEN Ask(st.world.validate, full_sol, BOOLEAN) ELSE {TRUE} }

\* else { cur_distance = collision_->distance(...); if (cur_distance > distance) ... }
\* Without a collision interface the call dereferences a null pointer: the
\* program crashes, or goes on with whatever value the call left.
BestBranch(p, full_sol, st) ==
    LET taken(d, s1) ==
            IF Improves(d, s1.distance)
            THEN [s1 EXCEPT !.distance = d,
                            !.solution_set = InsertBegin(@, full_sol)]
            ELSE s1
    IN IF ~collision
       THEN LET s1 == [st EXCEPT !.log = Append(@, Call("distance", TRUE, p, << >>, full_sol))]
            IN {[s1 EXCEPT !.crashed = TRUE]} \cup {taken(d, s1) : d \in Dists}
       ELSE { taken(d, [st EXCEPT !.world.clearance = Learn(@, full_sol, d),
                                  !.log = Append(@, Call("distance", TRUE, p, << >>, full_sol))])
              : d \in Ask(st.world.clearance, full_sol, Dists) }

\* Mutant: the answer of the validity predicate is ignored.
NotValid_Never(valid) == FALSE

\* if (!is_valid_(...)) continue;
NotValid(valid) == ~valid

\* The body of the loop over the branches, for branch n.
BranchBody(p, full_sol, get_best_solution, st) ==
    UNION { LET s1 == [st EXCEPT !.world.is_valid = Learn(@, full_sol, v),
                                 !.log = Append(@, Call("is_valid", get_best_solution, p, << >>, full_sol))]
            IN IF NotValid(v) THEN {s1}
               ELSE IF ~get_best_solution THEN CollectBranch(p, full_sol, s1)
               ELSE BestBranch(p, full_sol, s1)
            : v \in Ask(st.world.is_valid, full_sol, BOOLEAN) }

\* for (long i = 0; i < num_sols; i++): the iterations from n on. A crash
\* ends the loop.
RECURSIVE BranchLoop(_, _, _, _, _, _)
BranchLoop(n, p, rail, robot_solution_set, get_best_solution, st) ==
    IF n > NumSols(robot_solution_set) \/ st.crashed THEN {st}
    ELSE UNION { BranchLoop(n + 1, p, rail, robot_solution_set, get_best_solution, s1)
                 : s1 \in BranchBody(p, FullSol(rail, robot_solution_set, n),
                                     get_best_solution, st) }

\* ikAt(p, railed_pose, solution_set, get_best_solution, distance): the
\* working states it can end in.
ikAt(p, rail, get_best_solution, st) ==
    UNION { LET s1 == [st EXCEPT !.world.fwd_kin = Learn(@, rail, f),
                                 !.log = Append(@, Call("calcFwdKin", get_best_solution, p, rail, << >>))]
            IN IF ~f THEN {s1}
               ELSE UNION {
                 LET s2 == [s1 EXCEPT !.world.norm = Learn(@, << p, rail >>, nm)]
                 IN IF ExceedsReach(nm) THEN {s2}
                    ELSE UNION {
                      LET s3 == [s2 EXCEPT !.world.inv_kin = Learn(@, << p, rail >>, n),
                                           !.log = Append(@, Call("calcInvKin", get_best_solution, p, rail, << >>))]
                      IN IF n = -1 THEN {s3}
                         ELSE BranchLoop(1, p, rail, RobotSolutionSet(n), get_best_solution, s3)
                      : n \in Ask(s2.world.inv_kin, << p, rail >>, InvKinResults) }
                 : nm \in Ask(s1.world.norm, << p, rail >>, Norms) }
            : f \in Ask(st.world.fwd_kin, rail, BOOLEAN) }

\* -------------------------------------------------------------- nested_ik
\* Eigen::Matrix<FloatType, Eigen::Dynamic, 1> railed_pose(num_joints);
FreshPose(n) == [d \in 1..n |-> Uninitialized]

\* Mutant: the value is written to the first element, whatever the level.
Assign_FirstLevel(sample_pose, loop_level, value) ==
    << value >> \o SubSeq(sample_pose, 2, Len(sample_pose))

\* sample_pose(loop_level) = value: the vector with one element replaced.
Assign(sample_pose, loop_level, value) ==
    SubSeq(sample_pose, 1, loop_level - 1) \o << value >>
        \o SubSeq(sample_pose, loop_level + 1, Len(sample_pose))

\* nested_ik(loop_level, dof_range, p, sample_pose, ...): the sample pose is
\* assigned in place; visited collects the sample poses handed to ikAt, in
\* order. Levels count from 1 here and from 0 in the source.
RECURSIVE nested_ik(_, _, _, _)
RECURSIVE NestedLoop(_, _, _, _, _)
nested_ik(loop_level, ranges, sample_pose, visited) ==
    IF loop_level > Len(ranges)
    THEN [sample_pose |-> sample_pose, visited |-> Append(visited, sample_pose)]
    ELSE NestedLoop(loop_level, 1, ranges, sample_pose, visited)

\* Mutant: the loop stops one sample short of the end of the grid.
RECURSIVE NestedLoop_SkipLast(_, _, _, _, _)
NestedLoop_SkipLast(loop_level, n, ranges, sample_pose, visited) ==
    IF n >= Len(ranges[loop_level])
    THEN [sample_pose |-> sample_pose, visited |-> visited]
    ELSE LET assigned == Assign(sample_pose, loop_level, ranges[loop_level][n])
             inner == nested_ik(loop_level + 1, ranges, assigned, visited)
         IN NestedLoop_SkipLast(loop_level, n + 1, ranges, inner.sample_pose, inner.visited)

\* for (long i = 0; i < dof_range[loop_level].size(); ++i): iterations n on.
NestedLoop(loop_level, n, ranges, sample_pose, visited) ==
    IF n > Len(ranges[loop_level])
    THEN [sample_pose |-> sample_pose, visited |-> visited]
    ELSE LET assigned == Assign(sample_pose, loop_level, ranges[loop_level][n])
             inner == nested_ik(loop_level + 1, ranges, assigned, visited)
         IN NestedLoop(loop_level, n + 1, ranges, inner.sample_pose, inner.visited)

\* for (std::size_t i = 0; i < tool_poses.size(); ++i) nested_ik(0, ...): the
\* ikAt calls of one pass, in order, from tool pose p on.
RECURSIVE PassCalls(_, _, _)
PassCalls(p, poses, ranges) ==
    IF p > poses THEN << >>
    ELSE LET visited == nested_ik(1, ranges, FreshPose(Len(ranges)), << >>).visited
         IN [n \in 1..Len(visited) |-> [pose |-> p, rail |-> visited[n]]]
            \o PassCalls(p + 1, poses, ranges)


\* ---------------------------------------------------------------- sample
\* The ikAt calls of a pass over every tool pose candidate and rail grid point.
Calls == PassCalls(1, num_poses, dof_range)

\* Number of points of the Cartesian product of the grids of DOF d on.
RECURSIVE GridPoints(_, _)
GridPoints(ranges, d) ==
    IF d > Len(ranges) THEN 1 ELSE Len(ranges[d]) * GridPoints(ranges, d + 1)

\* Lines 74-84: the locals, the rail grid and the tool pose candidates.
sample_begin ==
    /\ pc = "idle"
    /\ \E cnt \in CountChoices(railed_limits, railed_sample_resolution) :
         \E aborts \in Aborts(cnt) :
            /\ pc' = IF aborts THEN "crashed" ELSE "collect"
            /\ dof_range' = IF aborts THEN dof_range
                            ELSE DofRangeOf(railed_limits, cnt)
    /\ distance' = NumericLimitsMin
    /\ k' = 0
    /\ entry_set' = solution_set
    /\ log' = << >>
    /\ UNCHANGED << config, caller, i, railed_pose, solution_set, best_distance, ret, world >>

\* One ikAt call of the running pass, reached through nested_ik.
Step(get_best_solution) ==
    /\ k < Len(Calls)
    /\ LET c == Calls[k + 1]
           st == [world |-> world, solution_set |-> solution_set, log |-> log,
                  distance |-> IF get_best_solution THEN best_distance ELSE distance,
                  crashed |-> FALSE]
       IN \E r \in ikAt(c.pose, c.rail, get_best_solution, st) :
            /\ world' = r.world
            /\ solution_set' = r.solution_set
            /\ log' = r.log
            /\ distance' = IF get_best_solution THEN distance ELSE r.distance
            /\ best_distance' = IF get_best_solution THEN r.distance ELSE best_distance
            /\ pc' = IF r.crashed THEN "crashed" ELSE pc
            /\ i' = c.pose
            /\ railed_pose' = c.rail
    /\ k' = k + 1
    /\ UNCHANGED << config, caller, dof_range, ret, entry_set >>

\* Mutant: the fallback ignores the collision tolerance flag.
NeedsFallback_IgnoreFlag == solution_set = << >>

\* Line 93: solution_set.empty() && allow_collision_
NeedsFallback == solution_set = << >> /\ allow_collision

\* Lines 85-91: nested_ik(0, dof_range, tool_pose, railed_pose, solution_set, false, distance)
collect_step == pc = "collect" /\ Step(FALSE)

\* Lines 93-94 and 189: if (solution_set.empty() && allow_collision_) getBestSolution(...)
getBestSolution_begin ==
    /\ pc = "collect"
    /\ k = Len(Calls)
    /\ NeedsFallback
    /\ pc' = "best"
    /\ k' = 0
    /\ best_distance' = NumericLimitsMin
    /\ UNCHANGED << config, caller, dof_range, i, railed_pose, solution_set, distance, ret,
                    world, entry_set, log >>

\* Lines 191-197: nested_ik(0, dof_range, tool_pose, railed_pose, solution_set, true, distance)
best_step == pc = "best" /\ Step(TRUE)

\* Line 96 without the fallback: return !solution_set.empty();
return_collected ==
    /\ pc = "collect"
    /\ k = Len(Calls)
    /\ ~NeedsFallback
    /\ pc' = "done"
    /\ ret' = (solution_set # << >>)
    /\ UNCHANGED << config, caller, dof_range, k, i, railed_pose, solution_set, distance,
                    best_distance, world, entry_set, log >>

\* Lines 199 and 96 after the fallback: return !solution_set.empty();
return_best ==
    /\ pc = "best"
    /\ k = Len(Calls)
    /\ pc' = "done"
    /\ ret' = (solution_set # << >>)
    /\ UNCHANGED << config, caller, dof_range, k, i, railed_pose, solution_set, distance,
                    best_distance, world, entry_set, log >>

\* Line 72, entered again: the caller invokes sample() once more on the same
\* sampler, with the vector as the last invocation left it or with a vector
\* that holds what the first invocation received. The sampler and its
\* collaborators are as they were; sample() sets its locals itself.
sample_again ==
    /\ pc = "done"
    /\ invocation < MaxInvocations
    /\ pc' = "idle"
    /\ invocation' = invocation + 1
    /\ first_ret' = IF invocation = 1 THEN ret ELSE first_ret
    /\ first_set' = IF invocation = 1 THEN solution_set ELSE first_set
    /\ \E reused \in BOOLEAN :
          solution_set' = IF reused THEN solution_set ELSE entry_set
    /\ UNCHANGED << config, dof_range, k, i, railed_pose, distance,
                    best_distance, ret, world, entry_set, log >>

\* ------------------------------------------------------- specifications
NoAnswers ==
    [fwd_kin |-> EmptyFn, norm |-> EmptyFn, inv_kin |-> EmptyFn,
     is_valid |-> EmptyFn, validate |-> EmptyFn, clearance |-> EmptyFn]

\* The state after construction, before sample() is entered.
Constructed ==
    /\ pc = "idle"
    /\ dof_range = << >>
    /\ k = 0
    /\ i = 0
    /\ railed_pose = << >>
    /\ distance = 0
    /\ best_distance = 0
    /\ ret = FALSE
    /\ world = NoAnswers
    /\ entry_set = << >>
    /\ log = << >>
    /\ invocation = 1
    /\ first_ret = FALSE
    /\ first_set = << >>

\* The rail limits of the search specification: low <= high.
SearchLimits == { << lo, hi >> : lo \in {0}, hi \in 0..MaxLimit }

\* A sampler of at most MaxRailDOF rail joints whose pass makes at most
\* MaxPoints ikAt calls (MaxFallbackPoints when it tolerates collisions); the
\* caller's vector is empty or holds one solution of an earlier use.
Init ==
    /\ num_joints \in 1..MaxRailDOF
    /\ railed_limits \in [1..num_joints -> SearchLimits]
    /\ railed_sample_resolution \in [1..num_joints -> 1..MaxRes]
    /\ num_poses \in 0..MaxPoses
    /\ collision \in BOOLEAN
    /\ allow_collision \in BOOLEAN
    /\ num_poses * GridPoints(DofRange(railed_limits, railed_sample_resolution), 1)
           <= (IF allow_collision THEN MaxFallbackPoints ELSE MaxPoints)
    /\ solution_set \in { << >>, [n \in 1..dof |-> Stale] }
    /\ Constructed

Next ==
    \/ sample_begin
    \/ collect_step
    \/ getBestSolution_begin
    \/ best_step
    \/ return_collected
    \/ return_best

Spec == Init /\ [][Next]_vars

\* The Rail Grid Builder alone: one rail joint, any limits (inverted ones
\* included) and any positive resolution.
GridInit ==
    /\ num_joints = 1
    /\ railed_limits \in [1..1 -> (0..GridMaxLimit) \X (0..GridMaxLimit)]
    /\ railed_sample_resolution \in [1..1 -> 1..GridMaxRes]
    /\ num_poses = 1
    /\ collision = TRUE
    /\ allow_collision = FALSE
    /\ solution_set = << >>
    /\ Constructed

GridNext == sample_begin

GridSpec == GridInit /\ [][GridNext]_vars

\* Any configuration of one rail joint: limits in either order and
\* resolutions of either sign, zero included.
ConfigInit ==
    /\ num_joints = 1
    /\ railed_limits \in [1..1 -> (0..ConfigMaxLimit) \X (0..ConfigMaxLimit)]
    /\ railed_sample_resolution \in [1..1 -> (0 - MaxNegRes)..MaxRes]
    /\ num_poses \in 0..1
    /\ collision \in BOOLEAN
    /\ allow_collision \in BOOLEAN
    /\ solution_set \in { << >>, [n \in 1..dof |-> Stale] }
    /\ Constructed

ConfigSpec == ConfigInit /\ [][Next]_vars

\* Repeated invocations on one sampler of one rail joint; the first one
\* receives an empty vector.
RepeatInit ==
    /\ num_joints = 1
    /\ railed_limits \in [1..1 -> SearchLimits]
    /\ railed_sample_resolution \in [1..1 -> 1..MaxRes]
    /\ num_poses \in 0..1
    /\ collision \in BOOLEAN
    /\ allow_collision \in BOOLEAN
    /\ solution_set = << >>
    /\ Constructed

RepeatNext == Next \/ sample_again

RepeatSpec == RepeatInit /\ [][RepeatNext]_vars

\* ------------------------------------------------------------ vocabulary
\* The Full Joint Solutions packed in a vector.
Entries(set) == [n \in 1..(Len(set) \div dof) |-> SubSeq(set, dof * (n - 1) + 1, dof * n)]

Range(seq) == {seq[n] : n \in DOMAIN seq}

\* The points of the Cartesian product of the per-DOF rail grids.
ProductPoints ==
    { pt \in [1..num_joints -> UNION {Range(dof_range[d]) : d \in 1..num_joints}] :
        \A d \in 1..num_joints : pt[d] \in Range(dof_range[d]) }

\* The calls of collaborator fn logged in a pass (best: the best-only pass).
Logged(fn, best) == {n \in DOMAIN log : log[n].fn = fn /\ log[n].best = best}

Built == pc # "idle"

CollectEnded == pc = "collect" /\ k = Len(Calls)

BestEnded == pc = "best" /\ k = Len(Calls)

Accepted(sol) == sol \in DOMAIN world.is_valid /\ world.is_valid[sol]

Rejected(sol) == sol \in DOMAIN world.validate /\ ~world.validate[sol]

CollisionFree(sol) == sol \in DOMAIN world.validate /\ world.validate[sol]

\* The configurations whose clearance the best-only pass has queried.
BestVisited == {log[n].sol : n \in Logged("distance", TRUE)}

TypeOK ==
    /\ pc \in {"idle", "collect", "best", "done", "crashed"}
    /\ k \in 0..MaxPoints
    /\ ret \in BOOLEAN
    /\ distance \in {0, NumericLimitsMin}
    /\ best_distance \in {0} \cup Dists


\* -------------------------------------------------------------- collect-all
\* The Full Joint Solutions the running invocation has put in the vector.
Added == Entries(solution_set)

\* C1: after the collect-all pass of sample(), started with an empty Solution
\* Set, every Full Joint Solution in the Solution Set was accepted by the
\* validity predicate and is either reported collision-free by the collision
\* capability or no collision capability is configured. Checked in every
\* state of the collect-all pass, its end included.
C1_CollectSound ==
    (pc = "collect" /\ entry_set = << >>) =>
        \A n \in DOMAIN Added :
            /\ Accepted(Added[n])
            /\ (~collision \/ CollisionFree(Added[n]))

\* The pass has ended with two or more retained solutions after the validity
\* predicate and the collision capability each turned a branch down.
C1_Witness ==
    /\ CollectEnded
    /\ entry_set = << >>
    /\ collision
    /\ Len(Added) >= 2
    /\ \E sol \in DOMAIN world.validate : ~world.validate[sol]
    /\ \E sol \in DOMAIN world.is_valid : ~world.is_valid[sol]

\* Branch n of tool pose candidate p at rail grid point pt is feasible: rail
\* forward kinematics succeeds, the translation is within reach, inverse
\* kinematics succeeds with at least n branches, the validity predicate
\* accepts and the collision check passes or there is no collision capability.
Feasible(p, pt, n) ==
    /\ pt \in DOMAIN world.fwd_kin /\ world.fwd_kin[pt]
    /\ << p, pt >> \in DOMAIN world.norm /\ world.norm[<< p, pt >>] <= robot_reach
    /\ << p, pt >> \in DOMAIN world.inv_kin /\ world.inv_kin[<< p, pt >>] >= n
    /\ LET sol == FullSol(pt, RobotSolutionSet(world.inv_kin[<< p, pt >>]), n)
       IN Accepted(sol) /\ (~collision \/ CollisionFree(sol))

FeasibleBranches ==
    { t \in (1..num_poses) \X ProductPoints \X (1..MaxBranches) : Feasible(t[1], t[2], t[3]) }

\* C2: collect-all is complete. When the pass ends, every rail grid point has
\* been put to rail forward kinematics for every tool pose candidate, the
\* Full Joint Solution of every feasible branch is in the Solution Set, and
\* the pass has added exactly one entry per feasible branch: none is dropped
\* or overwritten.
C2_CollectComplete ==
    CollectEnded =>
        /\ \A p \in 1..num_poses, pt \in ProductPoints :
              \E n \in Logged("calcFwdKin", FALSE) : log[n].pose = p /\ log[n].rail = pt
        /\ \A t \in FeasibleBranches :
              \E n \in DOMAIN Added :
                  Added[n] = FullSol(t[2], RobotSolutionSet(world.inv_kin[<< t[1], t[2] >>]), t[3])
        /\ Len(Added) = Len(Entries(entry_set)) + Cardinality(FeasibleBranches)
        /\ \A n \in DOMAIN Entries(entry_set) : Added[n] = Entries(entry_set)[n]

\* The pass has ended with three or more feasible branches, two of them at
\* one grid point of one candidate.
C2_Witness ==
    /\ CollectEnded
    /\ entry_set = << >>
    /\ Cardinality(FeasibleBranches) >= 3
    /\ \E t \in FeasibleBranches, u \in FeasibleBranches :
          t[1] = u[1] /\ t[2] = u[2] /\ t[3] # u[3]

\* ---------------------------------------------------------------- best-only
\* C3: in best-only mode the Solution Set holds at most one Full Joint
\* Solution in every reachable state of the pass: its length is 0 or dof.
C3_AtMostOne ==
    pc = "best" => Len(solution_set) \in {0, dof}

\* The validity-accepted, reach-satisfying configurations the collaborators
\* have produced.
ValidVisited == {sol \in DOMAIN world.is_valid : world.is_valid[sol]}

Front == SubSeq(solution_set, 1, dof)

HighestClearance(sol) ==
    /\ sol \in BestVisited
    /\ \A other \in BestVisited : world.clearance[sol] >= world.clearance[other]

\* C4: when the collect-all pass is empty and collisions are tolerated, the
\* fallback result is empty only if no tool pose candidate and rail grid
\* point produced a reach-satisfying IK branch accepted by the validity
\* predicate; otherwise the highest-clearance configuration is returned, also
\* when every clearance is negative.
C4_FallbackResult ==
    BestEnded =>
        /\ solution_set = << >> => ValidVisited = {}
        /\ ValidVisited # {} => (solution_set # << >> /\ HighestClearance(Front))

\* C5: at the end of a best-only pass, the retained solution (the one at the
\* front of the Solution Set) has a clearance distance greater than or equal
\* to that of every other reach-satisfying, validity-accepted configuration
\* visited during that pass. Checked in every state of the pass against the
\* configurations visited so far.
C5_FrontIsBest ==
    (pc = "best" /\ solution_set # << >>) => HighestClearance(Front)

\* The pass has ended with a retained solution after visiting a
\* configuration of lower clearance and one that was found later and is
\* better than an earlier one.
C5_Witness ==
    /\ BestEnded
    /\ solution_set # << >>
    /\ \E sol \in BestVisited : world.clearance[sol] < world.clearance[Front]
    /\ \E m \in Logged("distance", TRUE), n \in Logged("distance", TRUE) :
          m < n /\ world.clearance[log[m].sol] < world.clearance[log[n].sol]
    /\ ValidVisited = BestVisited

\* --------------------------------------------------------------- sequencing
\* C6: the best-only pass starts only after the collect-all pass has finished
\* over every tool pose candidate with an empty Solution Set, and only if
\* collision tolerance is enabled; with collision tolerance disabled no
\* best-only step ever occurs and no solution rejected by the collision check
\* is ever in the returned Solution Set.
C6_FallbackOnlyWhenAllowed ==
    /\ [][(pc # "best" /\ pc' = "best") =>
            /\ CollectEnded
            /\ \A p \in 1..num_poses, pt \in ProductPoints :
                  \E n \in Logged("calcFwdKin", FALSE) : log[n].pose = p /\ log[n].rail = pt
            /\ solution_set = << >>
            /\ allow_collision]_vars
    /\ [](~allow_collision =>
            /\ pc # "best"
            /\ \A n \in DOMAIN log : ~log[n].best
            /\ pc = "done" => \A n \in DOMAIN Added : ~Rejected(Added[n]))

\* A best-only step has been taken.
C6_Witness ==
    /\ pc = "best"
    /\ k >= 1
    /\ allow_collision
    /\ Logged("calcFwdKin", TRUE) # {}

\* C7: at a rail sample point whose robot-frame target pose has a translation
\* norm greater than the configured reach, inverse kinematics is never
\* invoked, in either mode: every calcInvKin call was made for a pose whose
\* norm had been found within the reach.
C7_ReachBeforeInvKin ==
    /\ \A n \in DOMAIN log :
          log[n].fn = "calcInvKin" =>
              /\ << log[n].pose, log[n].rail >> \in DOMAIN world.norm
              /\ world.norm[<< log[n].pose, log[n].rail >>] <= robot_reach
    /\ \A key \in DOMAIN world.norm :
          world.norm[key] > robot_reach =>
              \A n \in DOMAIN log :
                  ~(log[n].fn = "calcInvKin" /\ log[n].pose = key[1] /\ log[n].rail = key[2])

\* Both passes have visited a point beyond the reach, and inverse kinematics
\* has been called elsewhere.
C7_Witness ==
    /\ pc = "done"
    /\ \E n \in Logged("calcFwdKin", FALSE), m \in Logged("calcFwdKin", TRUE) :
          /\ log[n].pose = log[m].pose /\ log[n].rail = log[m].rail
          /\ << log[n].pose, log[n].rail >> \in DOMAIN world.norm
          /\ world.norm[<< log[n].pose, log[n].rail >>] > robot_reach
    /\ Logged("calcInvKin", TRUE) # {}

\* C8: during the primary (collect-all) pass, rail forward kinematics is
\* invoked exactly once for every pair of tool pose candidate and point of
\* the Cartesian product of the per-DOF rail grids: (number of candidates) x
\* (product of the grid sizes) times in all.
C8_FwdKinOncePerPoint ==
    (CollectEnded \/ pc \in {"best", "done"}) =>
        /\ Cardinality(Logged("calcFwdKin", FALSE)) = num_poses * GridPoints(dof_range, 1)
        /\ \A p \in 1..num_poses, pt \in ProductPoints :
              Cardinality({n \in Logged("calcFwdKin", FALSE) :
                              log[n].pose = p /\ log[n].rail = pt}) = 1
        /\ \A n \in Logged("calcFwdKin", FALSE) :
              log[n].pose \in 1..num_poses /\ log[n].rail \in ProductPoints

\* Two candidates and two rail DOF with two grid points between them, rail
\* forward kinematics failing at one point and succeeding at another.
C8_Witness ==
    /\ pc = "done"
    /\ num_joints = 2
    /\ num_poses = 2
    /\ Cardinality(Logged("calcFwdKin", FALSE)) = 4
    /\ \E pt \in DOMAIN world.fwd_kin : ~world.fwd_kin[pt]
    /\ \E pt \in DOMAIN world.fwd_kin : world.fwd_kin[pt]

\* ----------------------------------------------------- Rail Grid Builder
\* The limits of rail DOF d in fixed-point units, and its resolution.
Lo(d) == railed_limits[d][1] * Scale

Hi(d) == railed_limits[d][2] * Scale

\* ceil(a / b) as the least n with n * b >= a.
CeilOf(a, b) == CHOOSE n \in 0..a : n * b >= a /\ (n = 0 \/ (n - 1) * b < a)

ExpectedCount(d) ==
    CeilOf(Abs(railed_limits[d][2] - railed_limits[d][1]), railed_sample_resolution[d])

NonDecreasing(seq) == \A n \in 1..(Len(seq) - 1) : seq[n] <= seq[n + 1]

\* C9 as stated: for every rail DOF with positive resolution and lo <= hi the
\* grid has exactly ceil(|hi - lo| / r) elements, its first element is lo, its
\* last element is hi, and it is monotonically non-decreasing (first and last
\* are read as holding of an empty grid).
C9_AsStated ==
    Built =>
        \A d \in 1..num_joints :
            Lo(d) <= Hi(d) =>
                LET g == dof_range[d]
                IN /\ Len(g) = ExpectedCount(d)
                   /\ Len(g) >= 1 => (g[1] = Lo(d) /\ g[Len(g)] = Hi(d))
                   /\ NonDecreasing(g)

\* C9 amended: for every rail DOF with positive resolution and lo <= hi the
\* grid has exactly ceil(|hi - lo| / r) elements and is monotonically
\* non-decreasing; its last element is hi whenever it is not empty; its first
\* element is lo whenever it has at least two elements; a grid of one element
\* holds hi alone, and lo = hi gives the empty grid.
C9_Grid ==
    Built =>
        \A d \in 1..num_joints :
            Lo(d) <= Hi(d) =>
                LET g == dof_range[d]
                IN /\ Len(g) = ExpectedCount(d)
                   /\ Len(g) >= 1 => g[Len(g)] = Hi(d)
                   /\ Len(g) >= 2 => g[1] = Lo(d)
                   /\ Len(g) = 1 => g = << Hi(d) >>
                   /\ Lo(d) = Hi(d) => g = << >>
                   /\ NonDecreasing(g)

\* A grid of three or more elements between distinct limits has been built.
C9_Witness ==
    /\ Built
    /\ \E d \in 1..num_joints :
        /\ Lo(d) < Hi(d)
        /\ Len(dof_range[d]) >= 3
        /\ dof_range[d][2] > Lo(d) /\ dof_range[d][2] < Hi(d)

\* C10: when the resolution divides the span of a rail DOF evenly, the grid
\* holds every value lo + k * r up to hi, so that consecutive samples are
\* spaced by exactly the resolution ([0, 1] with resolution 0.5 gives
\* [0, 0.5, 1]). Stated for limits lo < hi.
C10_EvenSpacing ==
    Built =>
        \A d \in 1..num_joints :
            LET lo == railed_limits[d][1]
                hi == railed_limits[d][2]
                r == railed_sample_resolution[d]
            IN (lo < hi /\ (hi - lo) % r = 0) =>
                   dof_range[d] = [n \in 1..((hi - lo) \div r + 1) |-> (lo + (n - 1) * r) * Scale]

\* ------------------------------------------------------ configuration errors
\* Some rail DOF has a resolution that is not positive, or inverted limits.
Malformed ==
    \E d \in 1..num_joints :
        \/ railed_sample_resolution[d] <= 0
        \/ railed_limits[d][1] > railed_limits[d][2]

\* C11: whenever some rail DOF has a resolution <= 0 or low > high, building
\* the rail grid fails with a ConfigurationError before any kinematics
\* collaborator is invoked and with the Solution Set unchanged. sample() has
\* no error outcome to observe, so the formula states what that failure
\* guarantees: no collaborator call is ever made and the Solution Set stays
\* as it was received.
C11_ConfigurationError ==
    Malformed =>
        /\ log = << >>
        /\ Built => solution_set = entry_set

\* C12: a best-only request made when no collision capability is configured
\* is detected at entry and reported as a configuration error; the best-only
\* enumeration is never run without a collision capability: no best-only
\* step is taken and no collaborator is called in best-only mode.
C12_BestOnlyNeedsCollision ==
    ~collision =>
        /\ pc = "best" => k = 0
        /\ \A n \in DOMAIN log : ~log[n].best

\* ---------------------------------------------------------- solution buffer
\* The scalars a step has inserted in the Solution Set: at the end in
\* collect-all mode, at the front in best-only mode.
Inserted ==
    IF pc = "collect"
    THEN SubSeq(solution_set', Len(solution_set) + 1, Len(solution_set'))
    ELSE SubSeq(solution_set', 1, Len(solution_set') - Len(solution_set))

\* The scalars that were in the Solution Set before the step.
Kept ==
    IF pc = "collect"
    THEN SubSeq(solution_set', 1, Len(solution_set))
    ELSE SubSeq(solution_set', Len(solution_set') - Len(solution_set) + 1,
                Len(solution_set'))

\* The branches inverse kinematics can return.
Branches ==
    { SubSeq(RobotSolutionSet(MaxBranches), RobotDOF * (n - 1) + 1, RobotDOF * n)
      : n \in 1..MaxBranches }

\* C13: in every reachable state of sample(), in both modes, the length of
\* the Solution Set is an exact multiple of dof = railDOF + robotDOF, and
\* every step only inserts whole Full Joint Solutions, each of exactly dof
\* scalars: the railDOF values of the rail sample point followed by the
\* robotDOF values of a branch; what was in the Solution Set stays in it.
C13_WholeSolutions ==
    /\ [](Len(solution_set) % dof = 0)
    /\ [][/\ Len(solution_set') >= Len(solution_set)
          /\ Kept = solution_set
          /\ Len(Inserted) % dof = 0
          /\ \A n \in DOMAIN Entries(Inserted) :
                /\ Len(Entries(Inserted)[n]) = num_joints + RobotDOF
                /\ SubSeq(Entries(Inserted)[n], 1, num_joints) = railed_pose'
                /\ SubSeq(Entries(Inserted)[n], num_joints + 1, dof) \in Branches]_vars

\* A sampler of two rail DOF has returned two solutions retained by the
\* best-only pass.
C13_Witness ==
    /\ pc = "done"
    /\ num_joints = 2
    /\ Logged("distance", TRUE) # {}
    /\ Len(solution_set) = 2 * dof

\* ------------------------------------------------------ repeated invocations
\* Two sequences of Full Joint Solutions hold the same solutions, each as
\* many times in the one as in the other.
SameMultiset(a, b) ==
    \A e \in Range(a) \cup Range(b) :
        Cardinality({n \in DOMAIN a : a[n] = e}) = Cardinality({n \in DOMAIN b : b[n] = e})

\* C14: repeated invocations of sample() on the same sampler with unchanged
\* configuration and deterministic collaborators produce the same success
\* boolean and the same multiset of Full Joint Solutions in the caller's
\* Solution Set: no result of an earlier invocation persists into or changes
\* the outcome of a later one.
C14_Idempotent ==
    (pc = "done" /\ invocation >= 2) =>
        /\ ret = first_ret
        /\ SameMultiset(Entries(solution_set), Entries(first_set))

\* ------------------------------------------------------------ return value
\* Inverse kinematics was asked at every rail grid point for every tool pose
\* candidate, at one point at least, and succeeded with no branch everywhere.
ZeroBranchesEverywhere ==
    /\ num_poses >= 1
    /\ ProductPoints # {}
    /\ \A p \in 1..num_poses, pt \in ProductPoints :
          /\ << p, pt >> \in DOMAIN world.inv_kin
          /\ world.inv_kin[<< p, pt >>] = 0

\* C15: sample() returns true if and only if the Solution Set is non-empty at
\* return; when the collect-all pass ends empty and collision tolerance is
\* disabled it returns false with an empty Solution Set; and when inverse
\* kinematics yields zero branches at every rail point for every candidate it
\* returns false, also with collision tolerance enabled.
C15_ReturnValue ==
    /\ [](pc = "done" => (ret <=> solution_set # << >>))
    /\ [][(CollectEnded /\ solution_set = << >> /\ ~allow_collision /\ pc' # pc) =>
            (pc' = "done" /\ ~ret' /\ solution_set' = << >>)]_vars
    /\ []((pc = "done" /\ ZeroBranchesEverywhere) => ~ret)

\* ------------------------------------------------- Best-Clearance Tracker
\* The clearance distances a step has queried, in the order of the queries.
StepQueries ==
    SelectSeq(SubSeq(log', Len(log) + 1, Len(log')), LAMBDA c : c.fn = "distance")

StepClearances == [n \in DOMAIN StepQueries |-> world'.clearance[StepQueries[n].sol]]

\* The highest of start and the first n values of ds.
RunningMax(ds, n, start) ==
    CHOOSE x \in {start} \cup {ds[m] : m \in 1..n} :
        \A y \in {start} \cup {ds[m] : m \in 1..n} : x >= y

\* The queries of the step whose clearance is strictly greater than the
\* tracker as it stands when they are made.
StepImprovements ==
    {n \in DOMAIN StepClearances :
        StepClearances[n] > RunningMax(StepClearances, n - 1, best_distance)}

\* C16: during a best-only pass the Best-Clearance Tracker is one running
\* value carried across all rail grid points and all tool pose candidates: it
\* never decreases and is never reset, and after a step it is the highest of
\* its old value and the clearances the step has queried. The Solution Set is
\* modified at a step exactly when a visited validity-accepted configuration
\* has a clearance strictly greater than the tracker, once per such
\* configuration, so that a configuration that ties the current best never
\* displaces the first-found one.
C16_RunningBest ==
    [][(pc = "best" /\ k' = k + 1) =>
          /\ best_distance' >= best_distance
          /\ best_distance' = RunningMax(StepClearances, Len(StepClearances), best_distance)
          /\ (solution_set' # solution_set) <=>
                 (\E n \in DOMAIN StepClearances : StepClearances[n] > best_distance)
          /\ Len(solution_set') = Len(solution_set) + dof * Cardinality(StepImprovements)
          /\ StepImprovements = {} => solution_set' = solution_set]_vars

\* The pass has ended with one retained solution after a configuration found
\* later, for another tool pose candidate, tied its clearance.
C16_Witness ==
    /\ BestEnded
    /\ Len(solution_set) = dof
    /\ \E m \in Logged("distance", TRUE), n \in Logged("distance", TRUE) :
          /\ m < n
          /\ log[m].pose # log[n].pose
          /\ log[m].sol # log[n].sol
          /\ world.clearance[log[m].sol] = world.clearance[log[n].sol]
          /\ world.clearance[log[m].sol] > NumericLimitsMin
          /\ Front = log[m].sol

\* ------------------------------------------------------ Rail Sample Point
\* The rail grid point of full assignment number j (from 0) of one nested
\* loop per rail DOF, the last DOF running fastest.
OdometerPoint(j) ==
    [d \in 1..num_joints |->
        dof_range[d][((j \div GridPoints(dof_range, d + 1)) % Len(dof_range[d])) + 1]]

\* The rail values of a Full Joint Solution, and its branch.
RailOf(sol) == SubSeq(sol, 1, num_joints)

BranchOf(sol) == SubSeq(sol, num_joints + 1, Len(sol))

\* C17: every Full Joint Solution placed in the Solution Set consists of the
\* rail values of the grid point being visited at that moment, each a member
\* of the grid of its rail DOF, followed by one IK branch returned for
\* exactly that grid point and tool pose candidate: the in-place assignment
\* of the Rail Sample Point during descent and backtracking never leaks a
\* value of another grid point, or an unassigned one, into a solution.
C17_RailOfVisitedPoint ==
    /\ [][(pc \in {"collect", "best"} /\ k' = k + 1) =>
            LET pt == OdometerPoint(k % GridPoints(dof_range, 1))
                p == (k \div GridPoints(dof_range, 1)) + 1
            IN /\ railed_pose' = pt
               /\ i' = p
               /\ \A d \in 1..num_joints : pt[d] \in Range(dof_range[d])
               /\ \A n \in DOMAIN Entries(Inserted) :
                     /\ RailOf(Entries(Inserted)[n]) = pt
                     /\ << p, pt >> \in DOMAIN world'.inv_kin
                     /\ \E b \in 1..world'.inv_kin[<< p, pt >>] :
                           Entries(Inserted)[n] =
                               FullSol(pt, RobotSolutionSet(world'.inv_kin[<< p, pt >>]), b)]_vars
    /\ [](Built =>
             \A n \in DOMAIN Added :
                \/ Added[n] \in Range(Entries(entry_set))
                \/ /\ RailOf(Added[n]) \in ProductPoints
                   /\ \A d \in 1..num_joints : Added[n][d] # Uninitialized)

\* A sampler of two rail DOF has returned solutions at two grid points that
\* differ in both rail values: the second was assembled after the first rail
\* DOF moved on and the second started over.
C17_Witness ==
    /\ pc = "done"
    /\ num_joints = 2
    /\ entry_set = << >>
    /\ \E m \in DOMAIN Added, n \in DOMAIN Added :
          /\ m < n
          /\ Added[m][1] # Added[n][1]
          /\ Added[m][2] # Added[n][2]

\* ---------------------------------------------------------- skipped points
\* The ikAt call for tool pose candidate p at rail grid point pt skips: rail
\* forward kinematics reports unreachable, the reach is exceeded, inverse
\* kinematics fails or returns zero branches, or the validity predicate
\* rejects every branch. Read off the collaborators' answers after the call.
StepSkips(p, pt) ==
    \/ ~world'.fwd_kin[pt]
    \/ world'.norm[<< p, pt >>] > robot_reach
    \/ world'.inv_kin[<< p, pt >>] <= 0
    \/ \A n \in 1..world'.inv_kin[<< p, pt >>] :
          ~world'.is_valid[FullSol(pt, RobotSolutionSet(world'.inv_kin[<< p, pt >>]), n)]

\* C18: a per-point step that skips leaves both the Solution Set and the
\* Best-Clearance Tracker unchanged, in either mode; a collect-all step never
\* changes the Best-Clearance Tracker.
C18_SkipChangesNothing ==
    [][(pc \in {"collect", "best"} /\ k' = k + 1) =>
          /\ StepSkips(Calls[k + 1].pose, Calls[k + 1].rail) =>
                /\ solution_set' = solution_set
                /\ distance' = distance
                /\ best_distance' = best_distance
          /\ pc = "collect" =>
                /\ distance' = distance
                /\ best_distance' = best_distance]_vars

\* Both passes have run over a point where rail forward kinematics fails and
\* a point all of whose branches the validity predicate rejects.
C18_Witness ==
    /\ pc = "done"
    /\ Logged("is_valid", TRUE) # {}
    /\ \E pt \in DOMAIN world.fwd_kin : ~world.fwd_kin[pt]
    /\ \E key \in DOMAIN world.inv_kin :
          /\ world.inv_kin[key] >= 2
          /\ \A n \in 1..world.inv_kin[key] :
                ~world.is_valid[FullSol(key[2], RobotSolutionSet(world.inv_kin[key]), n)]

\* ------------------------------------------- absent collision capability
\* C19: with deterministic collaborators and a sampler that has no collision
\* capability, the clearance distance query of the absent capability is
\* never reached: a collect-all pass that ended empty found no
\* validity-accepted branch, so the best-only pass, when it runs because
\* collisions are tolerated, never gets to the distance call (the call is
\* logged when it is reached, whatever comes of it).
C19_DistanceNeverReached ==
    ~collision =>
        /\ \A n \in DOMAIN log : log[n].fn # "distance"
        /\ pc = "best" => ValidVisited = {}

\* A sampler without a collision capability has run the best-only pass as
\* far as the validity predicate, which rejected two branches again.
C19_Witness ==
    /\ ~collision
    /\ allow_collision
    /\ pc = "done"
    /\ Cardinality({log[n].sol : n \in Logged("is_valid", TRUE)}) >= 2
    /\ ~ret

====
